---- MODULE Spec2Model ----
(***************************************************************************)
(* A model of dxkite/explorer: the indexer (core/scan.go), the positional  *)
(* record stream (core/stream/stream.go) and the search engine             *)
(* (SearchFile / isMatchSearch).                                           *)
(*                                                                         *)
(* Strings are sequences of one-character strings, so that substring,      *)
(* prefix, suffix and byte-offset computations are computed, not assumed.  *)
(***************************************************************************)
EXTENDS Integers, Sequences, FiniteSets, TLC

VARIABLES
    \* ---- the machine the indexer runs on
    sep,          \* os.PathSeparator of the build
    localOffset,  \* UTC offset (hours) of time.Local
    rootArg,      \* the source root handed to Create
    rootOk,       \* whether os.Stat / os.Lstat of the source root succeeds
    rootMtime,    \* modification time of the source root
    clock,        \* wall clock read by time.Now
    indexFile, extFile, tagFile, metaFile,   \* the four files under dataRoot
    \* ---- one Create call in progress
    pc,           \* position inside Create
    ic,           \* the IndexCreator: extMap, tagMap
    meta,         \* the *MetaData held by Create
    todo,         \* entries filepath.Walk has still to visit
    \* ---- history of the last Create call (not program state)
    lastResult, callStat, failStep, written,
    \* ---- one getExt call: the file name and the extension returned
    fname, fext,
    \* ---- one isMatchSearch call: record, SearchParams, result
    mFi, mMatch, mOut,
    \* ---- one SearchFile call
    sFile,        \* the bytes of the index file
    sRecs,        \* the records whose encodings the file holds (not program state)
    sMatch, sLimit,   \* the arguments match and limit
    sPc,          \* position inside SearchFile
    sPos,         \* the cursor of the open file
    sRst, sTake,  \* rst and take
    rr            \* a later Offset(id) + ScanNext on a fresh stream

envVars == <<sep, localOffset, rootArg, rootOk, rootMtime, clock>>
fileVars == <<indexFile, extFile, tagFile, metaFile>>
callVars == <<pc, ic, meta, todo>>
histVars == <<lastResult, callStat, failStep, written>>
idxVars == <<envVars, fileVars, callVars, histVars>>
extVars == <<fname, fext>>
matchVars == <<mFi, mMatch, mOut>>
searchVars == <<sFile, sRecs, sMatch, sLimit, sPc, sPos, sRst, sTake, rr>>
vars == <<idxVars, extVars, matchVars, searchVars>>

(***************************************************************************)
(* Bounds                                                                  *)
(***************************************************************************)
MaxNameLen == 4
MaxTime == 2
MaxRecords == 3
MaxLimit == 2

(***************************************************************************)
(* Strings                                                                 *)
(***************************************************************************)
Empty == << >>

\* strings.ToLower on the characters the model uses
ToLowerChar(c) ==
    CASE c = "A" -> "a"
      [] c = "B" -> "b"
      [] c = "M" -> "m"
      [] c = "P" -> "p"
      [] c = "T" -> "t"
      [] c = "X" -> "x"
      [] OTHER -> c

ToLower(s) == [i \in 1..Len(s) |-> ToLowerChar(s[i])]

\* strings.Index(s, sub): the 0-based index of the first occurrence, or -1
Index(s, sub) ==
    LET hits == {i \in 0..(Len(s) - Len(sub)) : SubSeq(s, i + 1, i + Len(sub)) = sub}
    IN  IF hits = {} THEN -1 ELSE CHOOSE i \in hits : \A j \in hits : i <= j

\* os.IsPathSeparator; getExt is handed base names, checked on the Unix build
IsPathSeparator(c) == c = "/"

\* filepath.Ext: scan back from the end to the final dot of the last element
RECURSIVE ExtScan(_, _)
ExtScan(path, i) ==
    IF i < 1 \/ IsPathSeparator(path[i]) THEN Empty
    ELSE IF path[i] = "." THEN SubSeq(path, i, Len(path))
    ELSE ExtScan(path, i - 1)

FilepathExt(path) == ExtScan(path, Len(path))

\* A plausible slip: a name that begins with its only dot has no extension
getExtDotfile(filename) ==
    LET ext == FilepathExt(filename)
    IN  IF Len(ext) <= 1 \/ Len(ext) = Len(filename) THEN Empty
        ELSE ToLower(SubSeq(ext, 2, Len(ext)))

getExt(filename) ==
    LET ext == FilepathExt(filename)
    IN  IF Len(ext) <= 1 THEN Empty
        ELSE ToLower(SubSeq(ext, 2, Len(ext)))

(***************************************************************************)
(* Paths                                                                   *)
(***************************************************************************)
HasPrefix(s, prefix) ==
    Len(prefix) <= Len(s) /\ SubSeq(s, 1, Len(prefix)) = prefix

\* strings.TrimPrefix
TrimPrefix(s, prefix) ==
    IF HasPrefix(s, prefix) THEN SubSeq(s, Len(prefix) + 1, Len(s)) ELSE s

\* strings.ReplaceAll(filename, "\\", "/")
normalizePath(filename) ==
    [i \in 1..Len(filename) |-> IF filename[i] = "\\" THEN "/" ELSE filename[i]]

\* filepath.Join of a clean path and one element
Join(dir, name) == dir \o <<sep>> \o name

\* the root of the file system: "/" on Unix, the volume "C:\" on Windows
FsRoot == IF sep = "/" THEN <<"/">> ELSE <<"C", ":", "\\">>

\* the process's working directory
Cwd == FsRoot \o <<"w">>

\* filepath.IsAbs: a leading separator on Unix, a volume on Windows
IsAbs(path) == HasPrefix(path, FsRoot)

\* filepath.Abs of a clean path
Abs(path) == IF IsAbs(path) THEN path ELSE Join(Cwd, path)

\* filepath.Base of a clean path: what follows the last separator
RECURSIVE BaseScan(_, _)
BaseScan(path, i) ==
    IF i < 1 \/ path[i] = sep THEN SubSeq(path, i + 1, Len(path))
    ELSE BaseScan(path, i - 1)

Base(path) == BaseScan(path, Len(path))

(***************************************************************************)
(* Configuration (ScanConfig) and the source trees                         *)
(***************************************************************************)
IgnoreName == { <<"s">> }
IgnoreExt == { <<"t", "m", "p">> }

\* the characters \w matches, among those the model's names use
WordChars == {"a", "b", "c", "d", "l", "m", "p", "q", "s", "t", "u", "x",
              "A", "B", "M", "P", "T", "X"}

\* The source root as the caller may give it: absolute, relative to the
\* working directory, and absolute with a base name of the ignore-name set.
RootArgs == { FsRoot \o <<"d">>, <<"d">>, FsRoot \o <<"s">> }

\* A tree is the sequence of the entries below the root in the order
\* filepath.Walk meets them (lexical, depth first); parent 0 is the root.
\* err says that lstat of the entry fails.
Node(id, name, parent, kind, err) ==
    [id |-> id, name |-> name, parent |-> parent, kind |-> kind, err |-> err]

Tree1 == <<
    Node(1, <<"B", ".", "T", "M", "P">>, 0, "file", FALSE),
    Node(2, <<"a", ".", "t", "x", "t">>, 0, "file", FALSE),
    Node(3, <<"s">>, 0, "dir", FALSE),
    Node(4, <<"c", ".", "m", "d">>, 3, "file", FALSE),
    Node(5, <<"u">>, 0, "dir", FALSE),
    Node(6, <<"[", "x", "]", ".", "M", "d">>, 5, "file", FALSE),
    Node(7, <<"s">>, 5, "file", FALSE) >>

Tree2 == <<
    Node(1, <<".", "p">>, 0, "file", FALSE),
    Node(2, <<"l">>, 0, "symlink", FALSE),
    Node(3, <<"q">>, 0, "file", TRUE),
    Node(4, <<"u">>, 0, "dir", FALSE),
    Node(5, <<"a", ".", "t", "x", "t">>, 4, "file", FALSE),
    Node(6, <<"v">>, 0, "dir", TRUE),
    Node(7, <<"c", ".", "m", "d">>, 6, "file", FALSE) >>

Trees == <<Tree1, Tree2>>

\* The root's content changes with its modification time.
TreeAt(mtime) == Trees[((mtime - 1) % Len(Trees)) + 1]

\* the root as filepath.Walk sees it
RootNode(root) == Node(0, Base(root), 0, "dir", FALSE)

NodeOf(tree, root, id) == IF id = 0 THEN RootNode(root) ELSE tree[id]

\* whether entry id lies below directory anc
RECURSIVE IsUnder(_, _, _)
IsUnder(tree, id, anc) ==
    IF id = 0 THEN FALSE
    ELSE tree[id].parent = anc \/ IsUnder(tree, tree[id].parent, anc)

\* the path filepath.Walk hands to the callback
RECURSIVE WalkPath(_, _, _)
WalkPath(tree, root, id) ==
    IF id = 0 THEN root
    ELSE Join(WalkPath(tree, root, tree[id].parent), tree[id].name)

(***************************************************************************)
(* Time: time.Time under ==, and its JSON form                             *)
(***************************************************************************)
\* A time.Time is an instant and a Location pointer; == compares both.
\* loc "UTC" is the nil pointer (the zero Time, and what parsing "Z" yields).
Time(inst, loc) == [inst |-> inst, loc |-> loc]
ZeroTime == Time(0, "UTC")

\* os.FileInfo.ModTime and time.Now: time.Unix(...) carries time.Local
ModTime(mtime) == Time(mtime, "Local")
Now == Time(clock, "Local")

\* Time.MarshalJSON: RFC 3339 with the zone offset of the value's location
MarshalTime(t) ==
    [inst |-> t.inst, off |-> IF t.loc = "Local" THEN localOffset ELSE 0]

\* Time.UnmarshalJSON: "Z" yields UTC; an offset equal to the local zone's
\* yields time.Local; any other offset a fixed zone
UnmarshalTime(e) ==
    IF e.off = 0 THEN Time(e.inst, "UTC")
    ELSE IF e.off = localOffset THEN Time(e.inst, "Local")
    ELSE Time(e.inst, "Fixed")

MetaData(lastUpdate, createTime) ==
    [LastUpdate |-> lastUpdate, CreateTime |-> createTime]

ZeroMeta == MetaData(ZeroTime, ZeroTime)

EncodeMeta(m) ==
    [last_update |-> MarshalTime(m.LastUpdate), create_time |-> MarshalTime(m.CreateTime)]

(***************************************************************************)
(* Files under dataRoot                                                    *)
(*   st = "absent": no such file; "empty": truncated, nothing written;     *)
(*   "ok": holds data                                                      *)
(***************************************************************************)
File(st, data) == [st |-> st, data |-> data]

NoExts == [e \in {} |-> TRUE]

\* writeJsonFile: the outcomes of open (O_TRUNC), Marshal and Write
writeJsonFile(old, empty, data) ==
    { [file |-> old, err |-> TRUE],                   \* OpenFile fails
      [file |-> File("empty", empty), err |-> TRUE],  \* Write fails
      [file |-> File("ok", data), err |-> FALSE] }

\* getMeta: a missing or undecodable file gives the zero MetaData
getMeta ==
    IF metaFile.st = "ok"
    THEN MetaData(UnmarshalTime(metaFile.data.last_update),
                  UnmarshalTime(metaFile.data.create_time))
    ELSE ZeroMeta

(***************************************************************************)
(* The indexer: NewIndexCreator, Create and the walk callback              *)
(***************************************************************************)
\* NewIndexCreator: extMap is preloaded with the ignore-extension set (true)
NewIndexCreator ==
    [extMap |-> [e \in IgnoreExt |-> TRUE], tagMap |-> {}]

\* ic.extMap[ext]: a missing key reads as false
ExtLookup(extMap, ext) == ext \in DOMAIN extMap /\ extMap[ext]

\* ic.extMap[ext] = false
ExtMark(extMap, ext) ==
    [e \in DOMAIN extMap \cup {ext} |-> IF e = ext THEN FALSE ELSE extMap[e]]

\* reg.FindAllStringSubmatch(name, -1) for TagExpr \[(\w+)\], group 1 of each match
RECURSIVE WordEnd(_, _)
WordEnd(name, k) ==
    IF k <= Len(name) /\ name[k] \in WordChars THEN WordEnd(name, k + 1) ELSE k

RECURSIVE TagScan(_, _)
TagScan(name, i) ==
    IF i > Len(name) THEN << >>
    ELSE IF name[i] = "["
         THEN LET k == WordEnd(name, i + 1)
              IN  IF k > i + 1 /\ k <= Len(name) /\ name[k] = "]"
                  THEN <<SubSeq(name, i + 1, k - 1)>> \o TagScan(name, k + 1)
                  ELSE TagScan(name, i + 1)
         ELSE TagScan(name, i + 1)

parseTag(name) == TagScan(name, 1)

FileInfo(name, path, tags, ext) ==
    [name |-> name, path |-> path, tags |-> tags, ext |-> ext]

\* the Path of a record: the walked path with the absolute root cut off
StoredPath(path, root) == normalizePath(TrimPrefix(path, Abs(root)))

\* A plausible slip: the ignore-name set is applied to directories only
WalkFnVerdictDirsOnly(node, nodeErr, extMap) ==
    IF nodeErr THEN "err"
    ELSE IF node.name \in IgnoreName /\ node.kind = "dir" THEN "skipdir"
    ELSE IF node.kind = "dir" THEN "dir"
    ELSE IF ExtLookup(extMap, getExt(node.name)) THEN "skipext"
    ELSE "emit"

\* What the walk callback does with one entry, before it writes anything:
\*   "err"      lstat failed, entry passed over
\*   "skipdir"  ignored name, directory: filepath.SkipDir
\*   "skipname" ignored name, not a directory
\*   "dir"      a directory: no record, walk goes on into it
\*   "skipext"  extMap[ext] is true
\*   "emit"     a record is written
WalkFnVerdict(node, nodeErr, extMap) ==
    IF nodeErr THEN "err"
    ELSE IF node.name \in IgnoreName
         THEN (IF node.kind = "dir" THEN "skipdir" ELSE "skipname")
    ELSE IF node.kind = "dir" THEN "dir"
    ELSE IF ExtLookup(extMap, getExt(node.name)) THEN "skipext"
    ELSE "emit"

\* the tree Create walks
CurTree == TreeAt(rootMtime)

Files == <<indexFile, extFile, tagFile, metaFile>>

Finish(result, step) ==
    /\ pc' = "idle"
    /\ ic' = NewIndexCreator
    /\ meta' = ZeroMeta
    /\ todo' = << >>
    /\ lastResult' = result
    /\ failStep' = step

\* A plausible slip: the metadata is persisted before the build
CreateOrderMetaFirst == <<"meta", "index", "ext", "tag">>

\* the order in which Create runs its four steps
CreateOrder == <<"index", "ext", "tag", "meta">>

\* the step that follows a step that returned nil; "done" is return nil
After(step) ==
    LET i == CHOOSE k \in 1..Len(CreateOrder) : CreateOrder[k] = step
    IN  IF i < Len(CreateOrder) THEN CreateOrder[i + 1] ELSE "done"

\* a step returned nil: go on, or return nil from Create
Proceed(step) ==
    IF After(step) = "done"
    THEN Finish("ok", "none")
    ELSE /\ pc' = After(step)
         /\ UNCHANGED <<ic, meta, todo, lastResult, failStep>>

\* the comparison that decides the skip: two time.Time values under ==
SameModTime(fiModTime, lastUpdate) == fiModTime = lastUpdate

\* InitIndex: NewIndexCreator, then Create up to the decision to rebuild
InitIndex ==
    /\ pc = "idle"
    /\ LET m == getMeta
           skip == rootOk /\ SameModTime(ModTime(rootMtime), m.LastUpdate)
       IN  /\ callStat' = [ok |-> rootOk, mtime |-> IF rootOk THEN rootMtime ELSE 0]
           /\ written' = {}
           /\ IF skip
              THEN Finish("skipped", "none")
              ELSE /\ pc' = CreateOrder[1]
                   /\ ic' = NewIndexCreator
                   /\ meta' = IF rootOk THEN MetaData(ModTime(rootMtime), Now) ELSE m
                   /\ todo' = << >>
                   /\ lastResult' = "running"
                   /\ failStep' = "none"
    /\ UNCHANGED <<envVars, fileVars>>

\* createIndexFile up to the walk: the index file is opened with O_TRUNC
createIndexFile ==
    /\ pc = "index"
    /\ \/ /\ Finish("error", "index")                \* OpenFile fails
          /\ UNCHANGED <<fileVars, written>>
       \/ /\ indexFile' = File("ok", << >>)
          /\ written' = written \cup {"index"}
          /\ pc' = "walk"
          /\ todo' = <<0>> \o [i \in 1..Len(CurTree) |-> i]
          /\ UNCHANGED <<ic, meta, lastResult, failStep, extFile, tagFile, metaFile>>
    /\ UNCHANGED <<envVars, callStat>>

\* one call of the walk callback, and what filepath.Walk does with its result
WalkFn ==
    /\ pc = "walk"
    /\ todo # << >>
    /\ LET id == Head(todo)
           node == NodeOf(CurTree, rootArg, id)
           nodeErr == IF id = 0 THEN ~rootOk ELSE node.err
           verdict == WalkFnVerdict(node, nodeErr, ic.extMap)
           ext == getExt(node.name)
           tags == parseTag(node.name)
           v == FileInfo(node.name, StoredPath(WalkPath(CurTree, rootArg, id), rootArg),
                         tags, ext)
           pruned == SelectSeq(Tail(todo), LAMBDA x : ~IsUnder(CurTree, x, id))
       IN  IF verdict = "emit"
           THEN \/ /\ indexFile' = File("ok", Append(indexFile.data, [rec |-> v, src |-> id]))
                   /\ ic' = [extMap |-> ExtMark(ic.extMap, ext),
                             tagMap |-> ic.tagMap \cup {tags[i] : i \in 1..Len(tags)}]
                   /\ todo' = Tail(todo)
                   /\ UNCHANGED <<pc, meta, lastResult, failStep>>
                \/ /\ Finish("error", "walk")        \* idx.Write fails
                   /\ UNCHANGED indexFile
           ELSE /\ todo' = IF verdict \in {"err", "skipdir"} THEN pruned ELSE Tail(todo)
                /\ UNCHANGED <<pc, ic, meta, lastResult, failStep, indexFile>>
    /\ UNCHANGED <<envVars, extFile, tagFile, metaFile, callStat, written>>

\* filepath.Walk returns nil: Create goes on to the dictionaries
WalkEnd ==
    /\ pc = "walk"
    /\ todo = << >>
    /\ Proceed("index")
    /\ UNCHANGED <<envVars, fileVars, callStat, written>>

createExtListFile ==
    /\ pc = "ext"
    /\ \E w \in writeJsonFile(extFile, NoExts, ic.extMap) :
          /\ extFile' = w.file
          /\ IF w.err
             THEN Finish("error", "ext") /\ UNCHANGED written
             ELSE Proceed("ext") /\ written' = written \cup {"ext"}
    /\ UNCHANGED <<envVars, indexFile, tagFile, metaFile, callStat>>

\* the orders in which ranging over tagMap can yield its keys
TagOrders(tagMap) ==
    {o \in [1..Cardinality(tagMap) -> tagMap] :
        \A i, j \in 1..Cardinality(tagMap) : i # j => o[i] # o[j]}

createTagListFile ==
    /\ pc = "tag"
    /\ \E tags \in TagOrders(ic.tagMap) :
       \E w \in writeJsonFile(tagFile, << >>, tags) :
          /\ tagFile' = w.file
          /\ IF w.err
             THEN Finish("error", "tag") /\ UNCHANGED written
             ELSE Proceed("tag") /\ written' = written \cup {"tag"}
    /\ UNCHANGED <<envVars, indexFile, extFile, metaFile, callStat>>

\* Create's last step: the metadata file
WriteMeta ==
    /\ pc = "meta"
    /\ \E w \in writeJsonFile(metaFile, EncodeMeta(ZeroMeta), EncodeMeta(meta)) :
          /\ metaFile' = w.file
          /\ IF w.err
             THEN Finish("error", "meta") /\ UNCHANGED written
             ELSE Proceed("meta") /\ written' = written \cup {"meta"}
    /\ UNCHANGED <<envVars, indexFile, extFile, tagFile, callStat>>

\* the process dies inside Create
Crash ==
    /\ pc \notin {"idle"}
    /\ Finish("crash", pc)
    /\ UNCHANGED <<envVars, fileVars, callStat, written>>

(***************************************************************************)
(* The environment, between Create calls                                   *)
(***************************************************************************)
\* entries are added to or removed from the root: its content changes and its
\* modification time becomes the current time
TouchRoot ==
    /\ pc = "idle"
    /\ rootOk
    /\ rootMtime < clock
    /\ rootMtime' = clock
    /\ UNCHANGED <<sep, localOffset, rootArg, rootOk, clock, fileVars, callVars, histVars>>

\* the root becomes unreachable (unmounted, no permission) or comes back
ToggleRoot ==
    /\ pc = "idle"
    /\ rootOk' = ~rootOk
    /\ UNCHANGED <<sep, localOffset, rootArg, rootMtime, clock, fileVars, callVars, histVars>>

Tick ==
    /\ pc = "idle"
    /\ clock < MaxTime
    /\ clock' = clock + 1
    /\ UNCHANGED <<sep, localOffset, rootArg, rootOk, rootMtime, fileVars, callVars, histVars>>

(***************************************************************************)
(* The filter: SearchParams and isMatchSearch                              *)
(***************************************************************************)
SearchParams(name, tag, ext, path) ==
    [Name |-> name, Tag |-> tag, Ext |-> ext, Path |-> path]

\* A plausible slip: the extension is tested like the name, by substring
isMatchSearchExtSubstring(fi, match) ==
    IF match.Path # Empty /\ Index(fi.path, match.Path) = -1 THEN FALSE
    ELSE IF match.Name # Empty /\ Index(fi.name, match.Name) = -1 THEN FALSE
    ELSE IF match.Ext # Empty /\ Index(fi.ext, match.Ext) = -1 THEN FALSE
    ELSE IF match.Tag # Empty /\ ~(\E i \in 1..Len(fi.tags) : fi.tags[i] = match.Tag)
         THEN FALSE
    ELSE TRUE

isMatchSearch(fi, match) ==
    IF match.Path # Empty /\ Index(fi.path, match.Path) = -1 THEN FALSE
    ELSE IF match.Name # Empty /\ Index(fi.name, match.Name) = -1 THEN FALSE
    ELSE IF match.Ext # Empty /\ fi.ext # match.Ext THEN FALSE
    ELSE IF match.Tag # Empty /\ ~(\E i \in 1..Len(fi.tags) : fi.tags[i] = match.Tag)
         THEN FALSE
    ELSE TRUE

(***************************************************************************)
(* getExt and isMatchSearch on their own: one call on one input            *)
(***************************************************************************)
Unset == <<"?">>
NoResult == [done |-> FALSE, val |-> FALSE]

ExtAlphabet == {"a", "B", "."}

\* the file names of 1..MaxNameLen characters
ExtNames == UNION {[1..n -> ExtAlphabet] : n \in 1..MaxNameLen}

ExtInit == fname \in ExtNames /\ fext = Unset

GetExt ==
    /\ fext = Unset
    /\ fext' = getExt(fname)
    /\ UNCHANGED fname

S_a_txt == <<"a", ".", "t", "x", "t">>
S_b_txt == <<"b", ".", "t", "x", "t">>
S_A_md == <<"A", ".", "m", "d">>
S_x_a_txt == <<"/", "x", "/", "a", ".", "t", "x", "t">>
S_y_b_txt == <<"/", "y", "/", "b", ".", "t", "x", "t">>
S_x_A_md == <<"/", "x", "/", "A", ".", "m", "d">>
S_txt == <<"t", "x", "t">>
S_md == <<"m", "d">>

Rec1 == FileInfo(S_a_txt, S_x_a_txt, << <<"x">> >>, S_txt)
Rec2 == FileInfo(S_b_txt, S_y_b_txt, << <<"y">> >>, S_txt)
Rec3 == FileInfo(S_A_md, S_x_A_md, << <<"y">>, <<"x">> >>, S_md)
Rec4 == FileInfo(<<"t">>, <<"/", "t">>, << >>, Empty)

MatchRecords == {Rec1, Rec2, Rec3, Rec4}

MatchParams ==
    {SearchParams(n, t, e, p) :
        n \in {Empty, <<"a">>, <<"A">>, <<".", "t">>},
        t \in {Empty, <<"x">>, <<"X">>},
        e \in {Empty, S_txt, <<"t", "x">>, <<"T", "X", "T">>},
        p \in {Empty, <<"/", "y">>, <<"/", "x", "/">>}}

MatchInit == mFi \in MatchRecords /\ mMatch \in MatchParams /\ mOut = NoResult

IsMatchSearch ==
    /\ ~mOut.done
    /\ mOut' = [done |-> TRUE, val |-> isMatchSearch(mFi, mMatch)]
    /\ UNCHANGED <<mFi, mMatch>>

(***************************************************************************)
(* The index file as bytes: json.Marshal(FileInfo) and '\n' per record     *)
(***************************************************************************)
Quote == <<"\"">>
K_name == <<"{", "\"", "n", "a", "m", "e", "\"", ":", "\"">>
K_path == <<",", "\"", "p", "a", "t", "h", "\"", ":", "\"">>
K_tags == <<",", "\"", "t", "a", "g", "s", "\"", ":", "[">>
K_ext == <<",", "\"", "e", "x", "t", "\"", ":", "\"">>

RECURSIVE EncodeTags(_)
EncodeTags(tags) ==
    IF tags = << >> THEN << >>
    ELSE Quote \o Head(tags) \o Quote
         \o (IF Len(tags) > 1 THEN <<",">> ELSE << >>) \o EncodeTags(Tail(tags))

\* json.Marshal(v) for a FileInfo: fields in declaration order
EncodeRecord(v) ==
    K_name \o v.name \o Quote \o K_path \o v.path \o Quote
    \o K_tags \o EncodeTags(v.tags) \o <<"]">>
    \o K_ext \o v.ext \o Quote \o <<"}">>

\* what the walk leaves in the index file: each record, then '\n'
RECURSIVE EncodeIndex(_)
EncodeIndex(recs) ==
    IF recs = << >> THEN << >>
    ELSE EncodeRecord(Head(recs)) \o <<"\n">> \o EncodeIndex(Tail(recs))

(***************************************************************************)
(* Decoding one record at a position (the codec behind binary.Read)        *)
(***************************************************************************)
At(s, i) == IF i \in 1..Len(s) THEN s[i] ELSE ""

HasAt(s, i, lit) ==
    i + Len(lit) - 1 <= Len(s) /\ SubSeq(s, i, i + Len(lit) - 1) = lit

\* the index of the first c at or after i, 0 when there is none
FirstAt(s, i, c) ==
    LET hits == {j \in i..Len(s) : s[j] = c}
    IN  IF hits = {} THEN 0 ELSE CHOOSE j \in hits : \A k \in hits : j <= k

\* a string body from i up to its closing quote q; next is the index after it
StringUpTo(s, i, q) ==
    IF q = 0 THEN [ok |-> FALSE, str |-> Empty, next |-> 0]
    ELSE [ok |-> TRUE, str |-> SubSeq(s, i, q - 1), next |-> q + 1]

ReadString(s, i) == StringUpTo(s, i, FirstAt(s, i, "\""))

NoTags == [ok |-> FALSE, tags |-> << >>, next |-> 0]

\* a tag t and the tags rest that follow it
ConsTags(t, rest) ==
    IF ~rest.ok THEN NoTags
    ELSE [ok |-> TRUE, tags |-> <<t.str>> \o rest.tags, next |-> rest.next]

\* the elements of the tags array from i (just after the bracket or a comma)
\* up to the closing bracket; first says that no element was read yet
RECURSIVE ReadTags(_, _, _)
RECURSIVE AfterTag(_, _)
AfterTag(s, t) ==
    IF ~t.ok THEN NoTags
    ELSE IF At(s, t.next) = "]"
         THEN [ok |-> TRUE, tags |-> <<t.str>>, next |-> t.next + 1]
    ELSE IF At(s, t.next) = "," THEN ConsTags(t, ReadTags(s, t.next + 1, FALSE))
    ELSE NoTags

ReadTags(s, i, first) ==
    IF first /\ At(s, i) = "]" THEN [ok |-> TRUE, tags |-> << >>, next |-> i + 1]
    ELSE IF At(s, i) # "\"" THEN NoTags
    ELSE AfterTag(s, ReadString(s, i + 1))

NilInfo == FileInfo(Empty, Empty, << >>, Empty)
BadRecord == [ok |-> FALSE, rec |-> NilInfo]

\* one line of the index file decoded into a record, field by field
DecodeExt(line, n, p, t, e) ==
    IF ~e.ok \/ e.next # Len(line) \/ At(line, e.next) # "}" THEN BadRecord
    ELSE [ok |-> TRUE, rec |-> FileInfo(n.str, p.str, t.tags, e.str)]

DecodeTags(line, n, p, t) ==
    IF ~t.ok \/ ~HasAt(line, t.next, K_ext) THEN BadRecord
    ELSE DecodeExt(line, n, p, t, ReadString(line, t.next + Len(K_ext)))

DecodePath(line, n, p) ==
    IF ~p.ok \/ ~HasAt(line, p.next, K_tags) THEN BadRecord
    ELSE DecodeTags(line, n, p, ReadTags(line, p.next + Len(K_tags), TRUE))

DecodeName(line, n) ==
    IF ~n.ok \/ ~HasAt(line, n.next, K_path) THEN BadRecord
    ELSE DecodePath(line, n, ReadString(line, n.next + Len(K_path)))

DecodeRecord(line) ==
    IF ~HasAt(line, 1, K_name) THEN BadRecord
    ELSE DecodeName(line, ReadString(line, Len(K_name) + 1))

\* the outcome of a read whose line ends at the newline nl and decodes to d
ReadResult(d, nl) ==
    IF d.ok THEN [err |-> "nil", rec |-> d.rec, pos |-> nl]
    ELSE [err |-> "decode", rec |-> NilInfo, pos |-> nl]

ReadLine(file, pos, nl) ==
    IF nl = 0 THEN [err |-> "decode", rec |-> NilInfo, pos |-> Len(file)]
    ELSE ReadResult(DecodeRecord(SubSeq(file, pos + 1, nl - 1)), nl)

\* binary.Read(r, rst) with the cursor at pos: decodes exactly one record and
\* leaves the cursor behind it; io.EOF when nothing is left to read
BinaryRead(file, pos) ==
    IF pos >= Len(file) THEN [err |-> "EOF", rec |-> NilInfo, pos |-> pos]
    ELSE ReadLine(file, pos, FirstAt(file, pos + 1, "\n"))

(***************************************************************************)
(* The positional record stream: JsonStream                                *)
(***************************************************************************)
\* JsonStream.Offset: Seek(offset, io.SeekStart); a negative offset is an error
Offset(pos, offset) ==
    IF offset < 0 THEN [err |-> "seek", pos |-> pos]
    ELSE [err |-> "nil", pos |-> offset]

\* A plausible slip: the cursor is read after the record, not before it
ScanNextCursorAfter(cur, r) ==
    [offset |-> r.pos, info |-> r.rec, err |-> r.err, pos |-> r.pos]

\* what ScanNext returns: the cursor cur taken before the read r
ScanNextResult(cur, r) ==
    [offset |-> cur, info |-> r.rec, err |-> r.err, pos |-> r.pos]

\* JsonStream.ScanNext: Seek(0, io.SeekCurrent), then binary.Read
ScanNext(file, pos) == ScanNextResult(pos, BinaryRead(file, pos))

(***************************************************************************)
(* The search engine: SearchFile                                           *)
(***************************************************************************)
SearchFileInfo(id, index) == [Id |-> id, Index |-> index]

NoReread ==
    [done |-> FALSE, k |-> 0, offset |-> 0, info |-> NilInfo, err |-> "nil", pos |-> 0]

\* os.OpenFile, the stream, rst and take
SearchOpen ==
    /\ sPc = "start"
    /\ \/ sPc' = "failed"                 \* the file cannot be opened
       \/ sPc' = "loop"
    /\ sPos' = 0
    /\ sRst' = << >>
    /\ sTake' = 0
    /\ UNCHANGED <<sFile, sRecs, sMatch, sLimit, rr>>

\* the body of the for loop, r being what ScanNext returned
LoopBody(r) ==
    /\ sPos' = r.pos
    /\ IF r.err = "EOF"
       THEN sPc' = "done" /\ UNCHANGED <<sRst, sTake>>
       ELSE IF r.err # "nil"
       THEN sPc' = "failed" /\ sRst' = << >> /\ UNCHANGED sTake
       ELSE IF ~isMatchSearch(r.info, sMatch)
       THEN UNCHANGED <<sPc, sRst, sTake>>
       ELSE /\ sRst' = Append(sRst, SearchFileInfo(r.offset, r.info))
            /\ sTake' = sTake + 1
            /\ sPc' = IF sLimit = -1 THEN "loop"
                      ELSE IF sTake + 1 >= sLimit THEN "done"
                      ELSE "loop"

\* one iteration of the for loop
SearchLoop ==
    /\ sPc = "loop"
    /\ LoopBody(ScanNext(sFile, sPos))
    /\ UNCHANGED <<sFile, sRecs, sMatch, sLimit, rr>>

\* a caller takes the id of a result to a fresh stream on the same file:
\* Offset(id), then ScanNext
RereadResult(k, o, n) ==
    [done |-> TRUE, k |-> k, offset |-> n.offset, info |-> n.info,
     err |-> IF o.err # "nil" THEN o.err ELSE n.err, pos |-> n.pos]

OffsetThenScanNext(file, k, id) ==
    RereadResult(k, Offset(0, id), ScanNext(file, Offset(0, id).pos))

Reread ==
    /\ sPc = "done"
    /\ ~rr.done
    /\ \E k \in 1..Len(sRst) : rr' = OffsetThenScanNext(sFile, k, sRst[k].Id)
    /\ UNCHANGED <<sFile, sRecs, sMatch, sLimit, sPc, sPos, sRst, sTake>>

SearchRecords == {Rec1, Rec2, Rec4}

SearchFilters ==
    { SearchParams(Empty, Empty, Empty, Empty),
      SearchParams(Empty, Empty, S_txt, Empty),
      SearchParams(Empty, <<"x">>, S_txt, Empty),
      SearchParams(Empty, Empty, Empty, <<"/", "y">>) }

RecordLists == UNION {[1..n -> SearchRecords] : n \in 0..MaxRecords}

\* an index file whose last record was cut short (a build died in a Write)
CutShort(file) == SubSeq(file, 1, Len(file) - 3)

SearchInit ==
    /\ \E recs \in RecordLists :
          \/ sRecs = recs /\ sFile = EncodeIndex(recs)
          \/ /\ recs # << >>
             /\ sRecs = SubSeq(recs, 1, Len(recs) - 1)
             /\ sFile = CutShort(EncodeIndex(recs))
    /\ sMatch \in SearchFilters
    /\ sLimit \in -1..MaxLimit
    /\ sPc = "start"
    /\ sPos = 0
    /\ sRst = << >>
    /\ sTake = 0
    /\ rr = NoReread

SearchPark ==
    /\ sFile = << >>
    /\ sRecs = << >>
    /\ sMatch = SearchParams(Empty, Empty, Empty, Empty)
    /\ sLimit = -1
    /\ sPc = "start"
    /\ sPos = 0
    /\ sRst = << >>
    /\ sTake = 0
    /\ rr = NoReread

(***************************************************************************)
(* Specification of the indexer                                            *)
(***************************************************************************)
Separators == {"/", "\\"}
LocalOffsets == {0, 8}

NoFiles ==
    <<File("absent", << >>), File("absent", NoExts), File("absent", << >>),
      File("absent", EncodeMeta(ZeroMeta))>>

IdxInit ==
    /\ sep \in Separators
    /\ localOffset \in LocalOffsets
    /\ rootArg \in RootArgs
    /\ rootOk = TRUE
    /\ rootMtime = 1
    /\ clock = 1
    /\ indexFile = NoFiles[1]
    /\ extFile = NoFiles[2]
    /\ tagFile = NoFiles[3]
    /\ metaFile = NoFiles[4]
    /\ pc = "idle"
    /\ ic = NewIndexCreator
    /\ meta = ZeroMeta
    /\ todo = << >>
    /\ lastResult = "none"
    /\ callStat = [ok |-> FALSE, mtime |-> 0]
    /\ failStep = "none"
    /\ written = {}

ExtPark == fname = Empty /\ fext = Unset
MatchPark ==
    /\ mFi = FileInfo(Empty, Empty, << >>, Empty)
    /\ mMatch = SearchParams(Empty, Empty, Empty, Empty)
    /\ mOut = NoResult

Init == IdxInit /\ ExtPark /\ MatchPark /\ SearchPark

Next ==
    \/ (InitIndex /\ UNCHANGED <<extVars, matchVars, searchVars>>)
    \/ (createIndexFile /\ UNCHANGED <<extVars, matchVars, searchVars>>)
    \/ (WalkFn /\ UNCHANGED <<extVars, matchVars, searchVars>>)
    \/ (WalkEnd /\ UNCHANGED <<extVars, matchVars, searchVars>>)
    \/ (createExtListFile /\ UNCHANGED <<extVars, matchVars, searchVars>>)
    \/ (createTagListFile /\ UNCHANGED <<extVars, matchVars, searchVars>>)
    \/ (WriteMeta /\ UNCHANGED <<extVars, matchVars, searchVars>>)
    \/ (Crash /\ UNCHANGED <<extVars, matchVars, searchVars>>)
    \/ (TouchRoot /\ UNCHANGED <<extVars, matchVars, searchVars>>)
    \/ (ToggleRoot /\ UNCHANGED <<extVars, matchVars, searchVars>>)
    \/ (Tick /\ UNCHANGED <<extVars, matchVars, searchVars>>)

Spec == Init /\ [][Next]_vars

(***************************************************************************)
(* Claims about the indexer (checked under Spec)                           *)
(***************************************************************************)
\* the tree and the root the last Create call walked
BuiltTree == TreeAt(callStat.mtime)

Ids(tree) == 1..Len(tree)

\* the directories between the root (excluded) and an entry
Ancestors(tree, id) == {a \in Ids(tree) : IsUnder(tree, id, a)}

Sources == {indexFile.data[i].src : i \in 1..Len(indexFile.data)}

\* the entry's path relative to the root, joined by forward slashes
RECURSIVE RelSlash(_, _)
RelSlash(tree, id) ==
    IF tree[id].parent = 0 THEN tree[id].name
    ELSE RelSlash(tree, tree[id].parent) \o <<"/">> \o tree[id].name

\* C1 as stated: a Create call that follows a successful one, with the source
\* root's modification time the same at both calls, skips the build, writes
\* none of the four files and returns success.
C1_SecondCreateSkips ==
    [][(/\ lastResult \in {"ok", "skipped"}
        /\ callStat.ok /\ rootOk /\ rootMtime = callStat.mtime
        /\ InitIndex)
       => (lastResult' = "skipped" /\ pc' = "idle" /\ Files' = Files)]_vars

\* a regular file, not ignored by name or extension, below no ignored directory
IndexableAsStated(tree, id) ==
    /\ tree[id].kind = "file"
    /\ tree[id].name \notin IgnoreName
    /\ getExt(tree[id].name) \notin IgnoreExt
    /\ \A a \in Ancestors(tree, id) : tree[a].name \notin IgnoreName

\* C2 as stated: after a rebuild the index holds exactly one record per
\* regular file whose name and extension are not ignored and that has no
\* ignored directory between the root and itself.
C2_RecordIffRegularFile ==
    lastResult = "ok" =>
        LET want == IF callStat.ok
                    THEN {id \in Ids(BuiltTree) : IndexableAsStated(BuiltTree, id)}
                    ELSE {}
        IN  Sources = want /\ Len(indexFile.data) = Cardinality(want)

\* an entry the walk reaches and does not pass over
Indexable(tree, root, id) ==
    /\ tree[id].kind # "dir"
    /\ ~tree[id].err
    /\ tree[id].name \notin IgnoreName
    /\ getExt(tree[id].name) \notin IgnoreExt
    /\ \A a \in Ancestors(tree, id) : tree[a].name \notin IgnoreName /\ ~tree[a].err
    /\ Base(root) \notin IgnoreName

\* C2 amended: after a rebuild the index holds exactly one record per entry
\* that is not a directory (a regular file, a symbolic link, ...), whose lstat
\* succeeded, whose name and extension are not ignored, and none of whose
\* ancestor directories -- the source root itself included -- has an ignored
\* name or could not be read; directories never produce records.
C2_RecordIffWalkedNonDirectory ==
    lastResult = "ok" =>
        LET want == IF callStat.ok
                    THEN {id \in Ids(BuiltTree) : Indexable(BuiltTree, rootArg, id)}
                    ELSE {}
        IN  /\ Sources = want
            /\ Len(indexFile.data) = Cardinality(want)
            /\ \A i \in 1..Len(indexFile.data) :
                  indexFile.data[i].rec.name = BuiltTree[indexFile.data[i].src].name

\* C2 witness: a rebuild that indexed a symbolic link and passed over entries
C2_Witness ==
    /\ lastResult = "ok"
    /\ callStat.ok
    /\ \E i \in 1..Len(indexFile.data) :
          BuiltTree[indexFile.data[i].src].kind = "symlink"
    /\ Cardinality(Sources) < Len(BuiltTree)

\* C3 as stated: after a rebuild the keys of the persisted extension
\* dictionary are exactly the extensions of the records of that build, so no
\* ignored extension is among them.
C3_ExtDictionaryIsExtensionsSeen ==
    lastResult = "ok" =>
        /\ extFile.st = "ok"
        /\ DOMAIN extFile.data =
              {indexFile.data[i].rec.ext : i \in 1..Len(indexFile.data)}
        /\ DOMAIN extFile.data \cap IgnoreExt = {}

\* C6: the metadata file is written only in Create's last step, after the
\* index file and both dictionaries were written in the same call; so a build
\* that crashed or failed earlier leaves the stored metadata as it was, and a
\* Create call that finds the root as that build found it rebuilds again.
C6_MetadataWrittenLast ==
    [][/\ (metaFile' # metaFile =>
              pc = "meta" /\ {"index", "ext", "tag"} \subseteq written)
       /\ ((/\ lastResult \in {"error", "crash"}
            /\ failStep # "meta"
            /\ rootOk = callStat.ok
            /\ (rootOk => rootMtime = callStat.mtime)
            /\ InitIndex)
           => lastResult' = "running")]_vars

\* a build died after truncating the index, with the metadata of an earlier
\* successful build still stored
C6_Witness ==
    /\ lastResult \in {"error", "crash"}
    /\ failStep \in {"walk", "ext", "tag"}
    /\ "index" \in written
    /\ metaFile.st = "ok"
    /\ callStat.ok
    /\ metaFile.data.last_update.inst # callStat.mtime

\* C9 as stated: whatever form the root argument has, a record's path is the
\* file's path relative to the root with forward slashes (with or without a
\* leading slash); the root prefix never remains.
C9_PathRelativeToRoot ==
    lastResult = "ok" =>
        \A i \in 1..Len(indexFile.data) :
            LET rel == RelSlash(BuiltTree, indexFile.data[i].src)
            IN  indexFile.data[i].rec.path \in {rel, <<"/">> \o rel}

\* the records a complete walk of a tree writes
WalkOutput(tree, root) ==
    LET ids == SelectSeq([i \in 1..Len(tree) |-> i],
                         LAMBDA id : Indexable(tree, root, id))
    IN  [k \in 1..Len(ids) |->
            [rec |-> FileInfo(tree[ids[k]].name,
                              StoredPath(WalkPath(tree, root, ids[k]), root),
                              parseTag(tree[ids[k]].name),
                              getExt(tree[ids[k]].name)),
             src |-> ids[k]]]

\* C10 as stated: a Create call that rewrote the index and returned success
\* has persisted last_update = the root modification time it observed; and a
\* Create call skips only when the index on disk is the output of a complete
\* walk of the root with that modification time.
C10_MetadataMatchesIndex ==
    /\ (lastResult = "ok" =>
            /\ callStat.ok
            /\ metaFile.st = "ok"
            /\ metaFile.data.last_update.inst = callStat.mtime)
    /\ (lastResult = "skipped" =>
            /\ indexFile.st = "ok"
            /\ indexFile.data = WalkOutput(BuiltTree, rootArg))

(***************************************************************************)
(* Specifications of the two pure functions                                *)
(***************************************************************************)
IdxPark ==
    /\ sep = "/"
    /\ localOffset = 0
    /\ rootArg = <<"/", "d">>
    /\ rootOk = TRUE
    /\ rootMtime = 1
    /\ clock = 1
    /\ indexFile = NoFiles[1]
    /\ extFile = NoFiles[2]
    /\ tagFile = NoFiles[3]
    /\ metaFile = NoFiles[4]
    /\ pc = "idle"
    /\ ic = NewIndexCreator
    /\ meta = ZeroMeta
    /\ todo = << >>
    /\ lastResult = "none"
    /\ callStat = [ok |-> FALSE, mtime |-> 0]
    /\ failStep = "none"
    /\ written = {}

InitExt == ExtInit /\ IdxPark /\ MatchPark /\ SearchPark
NextExt == GetExt /\ UNCHANGED <<idxVars, matchVars, searchVars>>
SpecExt == InitExt /\ [][NextExt]_vars

InitMatch == MatchInit /\ IdxPark /\ ExtPark /\ SearchPark
NextMatch == IsMatchSearch /\ UNCHANGED <<idxVars, extVars, searchVars>>
SpecMatch == InitMatch /\ [][NextMatch]_vars

(***************************************************************************)
(* Claims about getExt (SpecExt) and isMatchSearch (SpecMatch)             *)
(***************************************************************************)
Dots(name) == {i \in 1..Len(name) : name[i] = "."}

\* the index of the last dot of a name, 0 when there is none
LastDot(name) ==
    IF Dots(name) = {} THEN 0
    ELSE CHOOSE i \in Dots(name) : \A j \in Dots(name) : j <= i

AfterLastDot(name) == ToLower(SubSeq(name, LastDot(name) + 1, Len(name)))

\* C8 as stated: the extension is the lower-cased suffix after the last dot,
\* and empty when the name has no dot or when that dot is its first character.
C8_ExtEmptyForDotfile ==
    fext # Unset =>
        fext = IF LastDot(fname) \in {0, 1} THEN Empty ELSE AfterLastDot(fname)

\* C8 amended: the extension is the lower-cased suffix after the last dot, and
\* empty when the name has no dot (or nothing follows the last dot); a last
\* dot that is the first character counts like any other, so the extension
\* of a dotfile is the rest of its name.
C8_ExtIsSuffixAfterLastDot ==
    fext # Unset =>
        fext = IF LastDot(fname) = 0 THEN Empty ELSE AfterLastDot(fname)

\* getExt has returned the lower-cased rest of a dotfile's name
C8_Witness ==
    /\ fext # Unset
    /\ LastDot(fname) = 1
    /\ fext # Empty
    /\ fext # SubSeq(fname, 2, Len(fname))

IsSubstring(sub, str) ==
    \E i \in 1..(Len(str) + 1) :
        i + Len(sub) - 1 <= Len(str) /\ SubSeq(str, i, i + Len(sub) - 1) = sub

\* C5: a record matches iff all four criteria hold: name empty or a
\* case-sensitive substring of the record's name, path likewise, extension
\* empty or equal to the record's, tag empty or equal to one of its tags.
C5_MatchIsConjunction ==
    mOut.done =>
        mOut.val =
            (/\ (mMatch.Name = Empty \/ IsSubstring(mMatch.Name, mFi.name))
             /\ (mMatch.Path = Empty \/ IsSubstring(mMatch.Path, mFi.path))
             /\ (mMatch.Ext = Empty \/ mMatch.Ext = mFi.ext)
             /\ (mMatch.Tag = Empty \/ mMatch.Tag \in {mFi.tags[i] : i \in 1..Len(mFi.tags)}))

\* a filter with extension, tag and path set has matched a record
C5_Witness ==
    /\ mOut.done
    /\ mOut.val
    /\ mMatch.Ext # Empty /\ mMatch.Tag # Empty /\ mMatch.Path # Empty

(***************************************************************************)
(* Specification of the search engine and its claims                       *)
(***************************************************************************)
InitSearch == SearchInit /\ IdxPark /\ ExtPark /\ MatchPark

NextSearch ==
    \/ (SearchOpen /\ UNCHANGED <<idxVars, extVars, matchVars>>)
    \/ (SearchLoop /\ UNCHANGED <<idxVars, extVars, matchVars>>)
    \/ (Reread /\ UNCHANGED <<idxVars, extVars, matchVars>>)

SpecSearch == InitSearch /\ [][NextSearch]_vars

Min(a, b) == IF a < b THEN a ELSE b

\* the records of the file that match the filter, in file order
Matching == SelectSeq(sRecs, LAMBDA r : isMatchSearch(r, sMatch))

Returned == [k \in 1..Len(sRst) |-> sRst[k].Index]

\* C4 as stated: with M matching records, a limit >= 0 returns exactly the
\* first min(limit, M) of them in file order, and -1 returns all M.
C4_FirstLimitMatches ==
    sPc = "done" =>
        Returned = SubSeq(Matching, 1,
                          IF sLimit = -1 THEN Len(Matching)
                          ELSE Min(sLimit, Len(Matching)))

\* the byte offset at which the encoding of the j-th record begins
RECURSIVE RecordStart(_)
RecordStart(j) ==
    IF j <= 1 THEN 0
    ELSE RecordStart(j - 1) + Len(EncodeRecord(sRecs[j - 1])) + 1

\* C7: the id of a result is the offset at which its record's encoding
\* begins; each ScanNext leaves the cursor at the start of the following
\* record; and Offset(id) followed by ScanNext on the unchanged file returns
\* that offset, the record originally matched, and the next record's start.
C7_IdIsRecordOffset ==
    /\ \A k \in 1..Len(sRst) :
          \E j \in 1..Len(sRecs) :
              sRst[k].Id = RecordStart(j) /\ sRst[k].Index = sRecs[j]
    /\ (sPc = "loop" => \E j \in 1..(Len(sRecs) + 1) : sPos = RecordStart(j))
    /\ (rr.done =>
          /\ rr.err = "nil"
          /\ rr.offset = sRst[rr.k].Id
          /\ rr.info = sRst[rr.k].Index
          /\ rr.pos = rr.offset + Len(EncodeRecord(rr.info)) + 1)

\* the second result of a search, which does not start the file, was read again
C7_Witness ==
    /\ rr.done
    /\ rr.k = 2
    /\ rr.offset > 0
    /\ rr.info = Rec2
    /\ rr.pos < Len(sFile)

====
